---- MODULE Spec2Model ----
(***************************************************************************)
(* Model of fabfile.py: the static host table SERVERS, the role resolver   *)
(* _get_roledefs, the shared context env, the role guard strict_roles and  *)
(* the deploy task with its five guarded steps.                            *)
(*                                                                         *)
(* The fabfile is Python 2 (basestring, line 42) on Fabric 1.x.  Three     *)
(* facts of that platform are used and named where they are used:          *)
(*   - a dict is iterated in an arbitrary order that is fixed for the run  *)
(*     (SERVERS.items(), set(...), roledefs.items());                      *)
(*   - execute(task) calls the task once for every host of the task's      *)
(*     roles, in order, with env.host set to that host, and once with      *)
(*     env.host untouched when the roles have no host;                     *)
(*   - run(cmd) aborts the whole run when the command fails, unless        *)
(*     warn_only is set.                                                   *)
(***************************************************************************)
EXTENDS Integers, Sequences, FiniteSets, TLC

\* ---------------------------------------------------------------- bounds
MaxServers == 2
MaxRoleList == 2
MaxMapHosts == 2

\* --------------------------------------------------------------- domains
Hosts == {"h1", "h2"}
Environments == {"prod", "staging"}
EnvironmentTags == Environments \cup {"all"}
Roles == {"transcript", "other"}
None == "None"
False == "False"

VARIABLES
    SERVERS,      \* the host table, in definition order: Seq of traits
    items_order,  \* the order in which the dict SERVERS is iterated
    role_order,   \* the order in which a set/dict of role names is iterated
    env,          \* fabric's env: attribute name -> value
    guarded,      \* history: the guarded call made since env.host was set
    ran,          \* names of the runs_once tasks that already ran
    pc,           \* position of the deploy task
    all_hosts,    \* host list of the execute() call in progress
    host_i,       \* number of hosts the execute() in progress has handled
    branch,       \* deploy's local variable branch
    issued,       \* history: the remote commands issued, in order
    dispatched,   \* history: the (step, host) task calls made by execute
    skipped,      \* history: the (step, host) calls the guard suppressed
    fatal,        \* history: the remote commands that failed fatally
    invocation,   \* history: deploy's argument and env.git_revision at its call
    reselected    \* history: the last selection repeated the environment

vars == <<SERVERS, items_order, role_order, env, guarded, ran, pc, all_hosts,
          host_i, branch, issued, dispatched, skipped, fatal, invocation,
          reselected>>

\* ----------------------------------------------------------- env helpers
hasattr(e, k) == k \in DOMAIN e

SetAttr(e, k, v) == [x \in (DOMAIN e) \cup {k} |-> IF x = k THEN v ELSE e[x]]

\* getattr(e, k, default)
getattr(e, k, d) == IF hasattr(e, k) THEN e[k] ELSE d

\* fabric's defaults for the attributes the fabfile reads before setting them
DefaultEnv == [host |-> None, roledefs |-> <<>>, roles |-> <<>>]

\* ------------------------------------------------------------- registry
Traits == [host : Hosts, environment : EnvironmentTags, roles : SUBSET Roles]

Perms(n) == {p \in [1..n -> 1..n] : \A i, j \in 1..n : i # j => p[i] # p[j]}

Registries == UNION {[1..n -> Traits] : n \in 0..MaxServers}

\* SERVERS.items() / SERVERS.values(): the traits in iteration order
ServerItems == [i \in 1..Len(SERVERS) |-> SERVERS[items_order[i]]]

Range(s) == {s[i] : i \in 1..Len(s)}

\* ------------------------------------------------------------ resolver
HostsOf(items) == [i \in 1..Len(items) |-> items[i].host]

\* variant: the wildcard environment "all" is not honoured
_get_roledefs_no_wildcard(environment) ==
    LET roles == UNION {traits.roles : traits \in Range(ServerItems)}
    IN  [role \in roles |->
            HostsOf(SelectSeq(ServerItems,
                LAMBDA traits : /\ role \in traits.roles
                                /\ environment = traits.environment))]

\* variant: only the roles that have a host in the environment become keys
_get_roledefs_active_only(environment) ==
    LET Match(traits, role) ==
            /\ role \in traits.roles
            /\ (environment = traits.environment \/ traits.environment = "all")
        roles == {role \in UNION {traits.roles : traits \in Range(ServerItems)} :
                    \E traits \in Range(ServerItems) : Match(traits, role)}
    IN  [role \in roles |->
            HostsOf(SelectSeq(ServerItems, LAMBDA traits : Match(traits, role)))]

\* variant: the hosts of a role are collected back to front
_get_roledefs_reversed(environment) ==
    LET roles == UNION {traits.roles : traits \in Range(ServerItems)}
        Hits(role) ==
            HostsOf(SelectSeq(ServerItems,
                LAMBDA traits : /\ role \in traits.roles
                                /\ (environment = traits.environment
                                    \/ traits.environment = "all")))
    IN  [role \in roles |->
            [k \in 1..Len(Hits(role)) |-> Hits(role)[Len(Hits(role)) + 1 - k]]]

_get_roledefs(environment) ==
    LET roles == UNION {traits.roles : traits \in Range(ServerItems)}
    IN  [role \in roles |->
            HostsOf(SelectSeq(ServerItems,
                LAMBDA traits : /\ role \in traits.roles
                                /\ (environment = traits.environment
                                    \/ traits.environment = "all")))]

\* dict.items() of a dict keyed by role names: its keys in iteration order
RoleItems(d) == SelectSeq(role_order, LAMBDA role : role \in DOMAIN d)

\* variant: the new role map is added to the one already in env
_load_shared_env_dict_accumulate(e) ==
    LET fresh == _get_roledefs(e.environment)
        roledefs == [role \in DOMAIN fresh |->
                        (IF role \in DOMAIN e.roledefs THEN e.roledefs[role]
                         ELSE <<>>) \o fresh[role]]
        e1 == SetAttr(e, "user", "transcript")
        e2 == SetAttr(e1, "git_dir", "/opt/transcript/transcript-editor")
        e3 == SetAttr(e2, "roledefs", roledefs)
        e4 == SetAttr(e3, "roles",
                      SelectSeq(RoleItems(roledefs),
                                LAMBDA role : Len(roledefs[role]) > 0))
    IN  SetAttr(e4, "git_branch", e.environment)

_load_shared_env_dict(e) ==
    LET roledefs == _get_roledefs(e.environment)
        e1 == SetAttr(e, "user", "transcript")
        e2 == SetAttr(e1, "git_dir", "/opt/transcript/transcript-editor")
        e3 == SetAttr(e2, "roledefs", roledefs)
        e4 == SetAttr(e3, "roles",
                      SelectSeq(RoleItems(roledefs),
                                LAMBDA role : Len(roledefs[role]) > 0))
    IN  SetAttr(e4, "git_branch", e.environment)

\* ------------------------------------------------- runs of the resolver
DeployIdle ==
    /\ ran = {} /\ pc = "Idle" /\ all_hosts = <<>> /\ host_i = 0
    /\ branch = None /\ issued = <<>> /\ dispatched = <<>>
    /\ skipped = <<>> /\ fatal = <<>>
    /\ invocation = [branch |-> None, git_revision |-> None]
    /\ reselected = FALSE

NoGuarded ==
    [role_list |-> <<>>, roles |-> <<>>, host |-> None, result |-> None,
     called |-> FALSE, invoked |-> 0, returned |-> None]

InitRoles ==
    /\ SERVERS \in Registries
    /\ items_order \in Perms(Len(SERVERS))
    /\ role_order \in {<<"transcript", "other">>, <<"other", "transcript">>}
    /\ env = DefaultEnv
    /\ guarded = NoGuarded
    /\ DeployIdle

\* env.environment = environment; _load_shared_env_dict()
SelectEnvironment(environment) ==
    /\ env' = _load_shared_env_dict(SetAttr(env, "environment", environment))
    /\ reselected' = (getattr(env, "environment", None) = environment)
    /\ UNCHANGED <<SERVERS, items_order, role_order, guarded, ran, pc,
                   all_hosts, host_i, branch, issued, dispatched, skipped,
                   fatal, invocation>>

NextRoles == \E environment \in Environments : SelectEnvironment(environment)

SpecRoles == InitRoles /\ [][NextRoles]_vars

\* ------------------------------------------- properties of the resolver
Loaded == hasattr(env, "environment")

\* the i-th descriptor of the host table holds role R in environment E
Holds(i, R, E) ==
    /\ R \in SERVERS[i].roles
    /\ SERVERS[i].environment \in {E, "all"}

\* C1: a host is listed under role R in the resolved role map if and only if
\* some descriptor has that host, lists R, and has the selected environment
\* or the wildcard "all".
C1_HostIffDescriptor ==
    Loaded =>
        \A R \in Roles, h \in Hosts :
            (/\ R \in DOMAIN env.roledefs
             /\ \E k \in 1..Len(env.roledefs[R]) : env.roledefs[R][k] = h)
            <=> (\E i \in 1..Len(SERVERS) :
                    SERVERS[i].host = h /\ Holds(i, R, env.environment))

\* a wildcard descriptor is listed and one of another environment is not
C1_Witness ==
    /\ Loaded
    /\ \E i, j \in 1..Len(SERVERS) :
          /\ SERVERS[i].environment = "all"
          /\ SERVERS[j].environment \notin {"all", env.environment}
          /\ \E R \in SERVERS[i].roles \cap SERVERS[j].roles :
                /\ SERVERS[i].host \in Range(env.roledefs[R])
                /\ SERVERS[j].host \notin Range(env.roledefs[R])

\* C3: the keys of the resolved role map are the role names of all the
\* descriptors, whatever the environment: a listed role without a host in the
\* environment is a key with an empty sequence, an unlisted role is no key.
C3_KeysAreListedRoles ==
    Loaded =>
        \A R \in Roles :
            LET listed == \E i \in 1..Len(SERVERS) : R \in SERVERS[i].roles
                held == \E i \in 1..Len(SERVERS) : Holds(i, R, env.environment)
            IN  /\ (R \in DOMAIN env.roledefs) <=> listed
                /\ (listed /\ ~held) => env.roledefs[R] = <<>>

\* one role is a key without hosts while another role is no key at all
C3_Witness ==
    /\ Loaded
    /\ \E R \in DOMAIN env.roledefs : env.roledefs[R] = <<>>
    /\ \E R \in Roles : R \notin DOMAIN env.roledefs

\* C7 as stated: the hosts of a role are listed in the order in which their
\* descriptors are defined in the host table.
C7_DefinitionOrder ==
    Loaded =>
        \A R \in DOMAIN env.roledefs :
            LET D == {i \in 1..Len(SERVERS) : Holds(i, R, env.environment)}
            IN  /\ Len(env.roledefs[R]) = Cardinality(D)
                /\ \A i \in D :
                      env.roledefs[R][Cardinality({j \in D : j <= i})]
                          = SERVERS[i].host

\* C7 amended: the hosts of a role are listed one per matching descriptor, in
\* the order in which the host table is iterated.
C7_IterationOrder ==
    Loaded =>
        \A R \in DOMAIN env.roledefs :
            LET D == {i \in 1..Len(SERVERS) :
                        Holds(items_order[i], R, env.environment)}
            IN  /\ Len(env.roledefs[R]) = Cardinality(D)
                /\ \A i \in D :
                      env.roledefs[R][Cardinality({j \in D : j <= i})]
                          = SERVERS[items_order[i]].host

\* two descriptors share a role and are iterated against their definition order
C7_Witness ==
    /\ Loaded
    /\ \E i, j \in 1..Len(SERVERS) : i < j /\ items_order[i] > items_order[j]
    /\ \E R \in DOMAIN env.roledefs :
          /\ Len(env.roledefs[R]) >= 2
          /\ env.roledefs[R][1] # env.roledefs[R][2]

\* the active roles are the keys of the role map that have a host
ActiveRoles ==
    Loaded =>
        /\ Range(env.roles) =
              {R \in DOMAIN env.roledefs : env.roledefs[R] # <<>>}
        /\ Len(env.roles) = Cardinality(Range(env.roles))

\* C8: selecting again the environment that is already selected leaves the
\* role map and the active-role list as they are, and the active roles are
\* exactly the roles with a non-empty host sequence.
C8_Idempotent ==
    /\ []ActiveRoles
    /\ [][(Loaded /\ env'.environment = env.environment)
            => (env'.roledefs = env.roledefs /\ env'.roles = env.roles)]_vars

\* an environment with an active and an inactive role was selected twice
C8_Witness ==
    /\ reselected
    /\ env.roles # <<>>
    /\ \E R \in DOMAIN env.roledefs : env.roledefs[R] = <<>>

\* ---------------------------------------------------------------- guard
\* One positional argument of strict_roles: a role name (isstr, val = <<name>>)
\* or one iterable of role names (val).
StrArg(role) == [isstr |-> TRUE, val |-> <<role>>]

SeqsUpTo(S, n) == UNION {[1..k -> S] : k \in 0..n}

RoleLists ==
    {[i \in 1..Len(s) |-> StrArg(s[i])] : s \in SeqsUpTo(Roles, MaxRoleList)}
    \cup {<<[isstr |-> FALSE, val |-> s]>> : s \in SeqsUpTo(Roles, MaxRoleList)}

\* attach_list: the list stored in the roles attribute of the task
attach_list(role_list) ==
    IF Len(role_list) = 1 /\ ~role_list[1].isstr
    THEN role_list[1].val
    ELSE [i \in 1..Len(role_list) |-> role_list[i].val[1]]

\* env.roledefs.get(role, [])
roledefs_get(e, role) ==
    IF role \in DOMAIN e.roledefs THEN e.roledefs[role] ELSE <<>>

\* the for loop of inner_decorator from the i-th role on: how often the task
\* was called and what the guarded function returns
RECURSIVE inner_loop(_, _, _, _)
inner_loop(roles, e, result, i) ==
    IF i > Len(roles) THEN [invoked |-> 0, returned |-> False]
    ELSE IF e.host \in Range(roledefs_get(e, roles[i]))
         THEN [invoked |-> 1, returned |-> result]
         ELSE inner_loop(roles, e, result, i + 1)

\* variant: the loop goes on after a role matched and calls the task again
inner_decorator_every_match(roles, e, result) ==
    LET hits == {i \in 1..Len(roles) :
                    e.host \in Range(roledefs_get(e, roles[i]))}
    IN  [invoked |-> Cardinality(hits),
         returned |-> IF hits = {} THEN False ELSE result]

inner_decorator(roles, e, result) == inner_loop(roles, e, result, 1)

RoleMaps ==
    UNION {[keys -> SeqsUpTo(Hosts, MaxMapHosts)] : keys \in SUBSET Roles}

InitGuard ==
    /\ SERVERS = <<>>
    /\ items_order = <<>>
    /\ role_order = <<"transcript", "other">>
    /\ \E roledefs \in RoleMaps : env = SetAttr(DefaultEnv, "roledefs", roledefs)
    /\ guarded = NoGuarded
    /\ DeployIdle

\* the dispatcher's env.host = host before a task is called
SetCurrentHost(host) ==
    /\ env' = SetAttr(env, "host", host)
    /\ guarded' = NoGuarded
    /\ UNCHANGED <<SERVERS, items_order, role_order, ran, pc,
                   all_hosts, host_i, branch, issued, dispatched, skipped,
                   fatal, invocation, reselected>>

\* a call of strict_roles(*role_list)(func), func returning result
CallGuarded(role_list, result) ==
    LET roles == attach_list(role_list)
        call == inner_decorator(roles, env, result)
    IN  /\ guarded' = [role_list |-> role_list, roles |-> roles,
                       host |-> env.host, result |-> result, called |-> TRUE,
                       invoked |-> call.invoked, returned |-> call.returned]
        /\ UNCHANGED <<SERVERS, items_order, role_order, env, ran, pc,
                       all_hosts, host_i, branch, issued, dispatched, skipped,
                       fatal, invocation, reselected>>

TaskResults == {None, "value"}

NextGuard ==
    \/ \E host \in Hosts \cup {None} : SetCurrentHost(host)
    \/ \E role_list \in RoleLists, result \in TaskResults :
          CallGuarded(role_list, result)

SpecGuard == InitGuard /\ [][NextGuard]_vars

\* ---------------------------------------------- properties of the guard
\* the role names a guarded task was restricted to, as they were passed
Required(role_list) ==
    IF \A i \in 1..Len(role_list) : role_list[i].isstr
    THEN [i \in 1..Len(role_list) |-> role_list[i].val[1]]
    ELSE role_list[1].val

\* host is listed in the role map under one of the roles
HoldsOneOf(host, roles) ==
    \E i \in 1..Len(roles) :
        /\ roles[i] \in DOMAIN env.roledefs
        /\ \E k \in 1..Len(env.roledefs[roles[i]]) :
              env.roledefs[roles[i]][k] = host

\* C2: a call of a guarded function calls the task exactly once and returns
\* its result if the current host is listed under one of the required roles
\* (a role missing from the map has no hosts); otherwise the task is not
\* called and the call returns the skip value False.
C2_GuardPermitsIffMember ==
    guarded.called =>
        IF HoldsOneOf(guarded.host, Required(guarded.role_list))
        THEN guarded.invoked = 1 /\ guarded.returned = guarded.result
        ELSE guarded.invoked = 0 /\ guarded.returned = False

\* the task ran for a host held under the second role, the first role being
\* no key of the role map
C2_Witness ==
    /\ guarded.called
    /\ guarded.invoked = 1
    /\ Len(guarded.roles) = 2
    /\ guarded.roles[1] \notin DOMAIN env.roledefs
    /\ HoldsOneOf(guarded.host, <<guarded.roles[2]>>)

\* --------------------------------------------------------------- deploy
MaxDeployServers == 2

REPO == "git@github.com:nypublicradio/transcript-editor"

RemoteRevisions == {"rev1", "rev2"}
RevisionArgs == {"", "r1"}
BranchArgs == {None, "b1"}

\* Python truth value of an optional string
Falsy(x) == x \in {None, ""}

\* Host tables of the deploy runs: like SERVERS they list the role the tasks
\* are restricted to.  Every order of the entries is among them, so the
\* iteration order is taken to be the definition order.
DeployTraits ==
    [host : Hosts, environment : Environments,
     roles : {{"transcript"}, {"other"}}]

DeployRegistries ==
    {reg \in UNION {[1..n -> DeployTraits] : n \in 1..MaxDeployServers} :
        \E i \in 1..Len(reg) : "transcript" \in reg[i].roles}

Init ==
    /\ SERVERS \in DeployRegistries
    /\ items_order = [i \in 1..Len(SERVERS) |-> i]
    /\ role_order \in {<<"transcript", "other">>, <<"other", "transcript">>}
    /\ env = DefaultEnv
    /\ guarded = NoGuarded
    /\ DeployIdle

\* fabric's merge(): the hosts of the given roles, in order, without repeats
RECURSIVE dedupe(_)
dedupe(hosts) ==
    IF hosts = <<>> THEN <<>>
    ELSE LET front == dedupe(SubSeq(hosts, 1, Len(hosts) - 1))
             last == hosts[Len(hosts)]
         IN  IF last \in Range(front) THEN front ELSE Append(front, last)

RECURSIVE role_hosts(_, _)
role_hosts(roles, roledefs) ==
    IF roles = <<>> THEN <<>>
    ELSE roledefs[Head(roles)] \o role_hosts(Tail(roles), roledefs)

\* the host list execute() derives for a task restricted to roles
ExecuteHosts(roles) == dedupe(role_hosts(roles, env.roledefs))

\* the roles attribute of the five tasks: @strict_roles('transcript')
TaskRoles == attach_list(<<StrArg("transcript")>>)

Cmd(host, cmd, arg, stdout, failed) ==
    [host |-> host, cmd |-> cmd, arg |-> arg, stdout |-> stdout,
     failed |-> failed]

\* run() of the commands cmds (command, argument, output) on host: those of
\* warned fail under warn_only,
\* the fail_at-th fails outside it and ends the run (0: none does)
RunAll(host, cmds, warned, fail_at) ==
    LET n == IF fail_at = 0 THEN Len(cmds) ELSE fail_at
    IN  [i \in 1..n |->
            Cmd(host, cmds[i][1], cmds[i][2], cmds[i][3],
                i = fail_at \/ i \in warned)]

UnchangedTables ==
    UNCHANGED <<SERVERS, items_order, role_order, guarded, reselected>>

\* @task @runs_once def prod()
prod ==
    /\ pc = "Idle"
    /\ "prod" \notin ran
    /\ ran' = ran \cup {"prod"}
    /\ env' = SetAttr(_load_shared_env_dict(SetAttr(env, "environment", "prod")),
                      "git_branch", "master")
    /\ UnchangedTables
    /\ UNCHANGED <<pc, all_hosts, host_i, branch, issued, dispatched, skipped,
                   fatal, invocation>>

\* @task @runs_once def r(revision)
r(revision) ==
    /\ pc \in {"Idle", "Done"}
    /\ "r" \notin ran
    /\ ran' = ran \cup {"r"}
    /\ env' = SetAttr(env, "git_revision", revision)
    /\ UnchangedTables
    /\ UNCHANGED <<pc, all_hosts, host_i, branch, issued, dispatched, skipped,
                   fatal, invocation>>

\* @task @runs_once def deploy(branch=None), as in `fab <environment> deploy`:
\* fab calls it for the first host of env.roles (for no host when there is
\* none) and it starts execute(_check_git_dir)
deploy(branch_arg) ==
    /\ pc = "Idle"
    /\ "deploy" \notin ran
    /\ hasattr(env, "environment")
    /\ ran' = ran \cup {"deploy"}
    /\ LET fab_hosts == ExecuteHosts(env.roles)
       IN  env' = IF fab_hosts = <<>> THEN env
                  ELSE SetAttr(env, "host", fab_hosts[1])
    /\ branch' = branch_arg
    /\ pc' = "check_git_dir"
    /\ all_hosts' = ExecuteHosts(TaskRoles)
    /\ host_i' = 0
    /\ UnchangedTables
    /\ invocation' = [branch |-> branch_arg,
                       git_revision |-> getattr(env, "git_revision", None)]
    /\ UNCHANGED <<issued, dispatched, skipped, fatal>>

\* the host execute() calls the task for next
CallHost == IF all_hosts = <<>> THEN env.host ELSE all_hosts[host_i + 1]

\* inner_decorator lets the task run for CallHost
Permitted ==
    inner_decorator(TaskRoles, SetAttr(env, "host", CallHost), None).invoked = 1

\* execute() goes on to its next host, or returns to deploy at position next
Advance(next) ==
    IF all_hosts = <<>> \/ host_i + 1 = Len(all_hosts)
    THEN /\ pc' = next
         /\ host_i' = 0
         /\ all_hosts' = IF next \in {"deploy_git", "install", "restart"}
                         THEN ExecuteHosts(TaskRoles) ELSE <<>>
    ELSE /\ pc' = pc
         /\ host_i' = host_i + 1
         /\ all_hosts' = all_hosts

\* one call of a guarded task by execute(): suppressed by the guard, or its
\* commands cmds run on the host up to the first fatal failure
TaskCall(step, next, cmds, warned, fail_at, env_after) ==
    /\ pc = step
    /\ dispatched' = Append(dispatched, <<step, CallHost>>)
    /\ UnchangedTables
    /\ UNCHANGED <<ran, branch, invocation>>
    /\ IF ~Permitted
       THEN /\ skipped' = Append(skipped, <<step, CallHost>>)
            /\ fail_at = 0
            /\ UNCHANGED <<env, issued, fatal>>
            /\ Advance(next)
       ELSE /\ issued' = issued \o RunAll(CallHost, cmds, warned, fail_at)
            /\ UNCHANGED skipped
            /\ IF fail_at = 0
               THEN /\ env' = env_after
                    /\ fatal' = fatal
                    /\ Advance(next)
               ELSE /\ fatal' = Append(fatal,
                                       Cmd(CallHost, cmds[fail_at][1],
                                           cmds[fail_at][2], cmds[fail_at][3],
                                           TRUE))
                    /\ pc' = "Aborted"
                    /\ UNCHANGED <<env, all_hosts, host_i>>

\* variant: the existence check runs without warn_only
_check_git_dir_fatal_test ==
    \E test_failed \in BOOLEAN :
        TaskCall("check_git_dir", "default_branch",
                 <<<<"test -d", env.git_dir, "">>>>, {},
                 IF test_failed THEN 1 ELSE 0, env)

\* @strict_roles('transcript') def _check_git_dir()
_check_git_dir ==
    \E test_failed \in BOOLEAN, clone_failed \in BOOLEAN :
        /\ clone_failed => test_failed
        /\ TaskCall("check_git_dir", "default_branch",
                    IF test_failed
                    THEN <<<<"test -d", env.git_dir, "">>,
                           <<"git clone", REPO, "">>>>
                    ELSE <<<<"test -d", env.git_dir, "">>>>,
                    IF test_failed THEN {1} ELSE {},
                    IF clone_failed THEN 2 ELSE 0, env)

\* deploy, lines 89-91
default_branch ==
    /\ pc = "default_branch"
    /\ branch' = IF Falsy(branch) THEN env.git_branch ELSE branch
    /\ pc' = "git_info"
    /\ all_hosts' = ExecuteHosts(TaskRoles)
    /\ host_i' = 0
    /\ UnchangedTables
    /\ UNCHANGED <<env, ran, issued, dispatched, skipped, fatal, invocation>>

\* variant: the git info is computed again for every host
_git_info_every_host ==
    \E fail_at \in 0..5, revision \in RemoteRevisions :
        /\ fail_at # 0 => revision = "rev1"
        /\ TaskCall("git_info", "set_revision",
                    <<<<"git fetch", branch, "">>,
                      <<"git rev-parse", branch, revision>>,
                      <<"git diff", branch, "">>,
                      <<"git log", "HEAD", "log of HEAD">>,
                      <<"git log", branch, "log of the branch">>>>,
                    {}, fail_at,
                    SetAttr(env, "git_info",
                            [revision |-> revision,
                             previous_commit |-> "log of HEAD",
                             deployed_commit |-> "log of the branch",
                             changed_files |-> <<"">>]))

\* @strict_roles('transcript') def _git_info(branch)
_git_info ==
    IF hasattr(env, "git_info")
    THEN TaskCall("git_info", "set_revision", <<>>, {}, 0, env)
    ELSE \E fail_at \in 0..5, revision \in RemoteRevisions :
            /\ fail_at # 0 => revision = "rev1"
            /\ TaskCall("git_info", "set_revision",
                        <<<<"git fetch", branch, "">>,
                          <<"git rev-parse", branch, revision>>,
                          <<"git diff", branch, "">>,
                          <<"git log", "HEAD", "log of HEAD">>,
                          <<"git log", branch, "log of the branch">>>>,
                        {}, fail_at,
                        SetAttr(env, "git_info",
                                [revision |-> revision,
                                 previous_commit |-> "log of HEAD",
                                 deployed_commit |-> "log of the branch",
                                 changed_files |-> <<"">>]))

\* variant: deploy goes on to _install without execute(_deploy_git, branch)
set_revision_then_install ==
    /\ pc = "set_revision"
    /\ UnchangedTables
    /\ UNCHANGED <<ran, branch, issued, dispatched, skipped, fatal, invocation>>
    /\ IF ~Falsy(getattr(env, "git_revision", None))
       THEN /\ env' = env
            /\ pc' = "install"
            /\ all_hosts' = ExecuteHosts(TaskRoles)
            /\ host_i' = 0
       ELSE IF hasattr(env, "git_info")
       THEN /\ env' = SetAttr(env, "git_revision", env.git_info.revision)
            /\ pc' = "install"
            /\ all_hosts' = ExecuteHosts(TaskRoles)
            /\ host_i' = 0
       ELSE /\ pc' = "Raised"
            /\ UNCHANGED <<env, all_hosts, host_i>>

\* deploy, lines 92-94: env.git_info is read and raises when it was never set
set_revision ==
    /\ pc = "set_revision"
    /\ UnchangedTables
    /\ UNCHANGED <<ran, branch, issued, dispatched, skipped, fatal, invocation>>
    /\ IF ~Falsy(getattr(env, "git_revision", None))
       THEN /\ env' = env
            /\ pc' = "deploy_git"
            /\ all_hosts' = ExecuteHosts(TaskRoles)
            /\ host_i' = 0
       ELSE IF hasattr(env, "git_info")
       THEN /\ env' = SetAttr(env, "git_revision", env.git_info.revision)
            /\ pc' = "deploy_git"
            /\ all_hosts' = ExecuteHosts(TaskRoles)
            /\ host_i' = 0
       ELSE /\ pc' = "Raised"
            /\ UNCHANGED <<env, all_hosts, host_i>>

\* @strict_roles('transcript') def _deploy_git(branch)
_deploy_git ==
    \E fail_at \in 0..3 :
        TaskCall("deploy_git", "install",
                 <<<<"git fetch", branch, "">>, <<"git reset", branch, "">>,
                   <<"git checkout", env.git_revision, "">>>>,
                 {}, fail_at, env)

\* @strict_roles('transcript') def _install()
_install ==
    \E fail_at \in 0..5 :
        TaskCall("install", "restart",
                 <<<<"bundle install", "", "">>,
                   <<"ln application.yml", "", "">>,
                   <<"ln database.yml", "", "">>, <<"rake db", "", "">>,
                   <<"rake project:load", "nypr-archives", "">>>>,
                 {}, fail_at, env)

\* @strict_roles('transcript') def _restart()
_restart ==
    \E fail_at \in 0..1 :
        TaskCall("restart", "Done", <<<<"systemctl restart", "transcript", "">>>>,
                 {},
                 fail_at, env)

Next ==
    \/ prod
    \/ \E revision \in RevisionArgs : r(revision)
    \/ \E branch_arg \in BranchArgs : deploy(branch_arg)
    \/ _check_git_dir
    \/ default_branch
    \/ _git_info
    \/ set_revision
    \/ _deploy_git
    \/ _install
    \/ _restart

Spec == Init /\ [][Next]_vars

\* --------------------------------------------- properties of the deploy
Steps == <<"check_git_dir", "git_info", "deploy_git", "install", "restart">>

StepNo(step) == CHOOSE n \in 1..Len(Steps) : Steps[n] = step

\* the hosts that hold the role of the tasks in the selected environment
Targets ==
    {SERVERS[i].host : i \in {j \in 1..Len(SERVERS) :
                                Holds(j, "transcript", env.environment)}}

\* the hosts step was dispatched to, in the order of the calls
HostsOfStep(step) ==
    LET calls == SelectSeq(dispatched, LAMBDA d : d[1] = step)
    IN  [k \in 1..Len(calls) |-> calls[k][2]]

IsPrefix(a, b) == Len(a) <= Len(b) /\ \A k \in 1..Len(a) : a[k] = b[k]

\* C4 as stated: the dispatch is host-major, a host gets all of its steps
\* before any step is dispatched to another host.
C4_HostMajor ==
    \A i, j, k \in 1..Len(dispatched) :
        (i < j /\ j < k /\ dispatched[i][2] = dispatched[k][2])
            => dispatched[j][2] = dispatched[i][2]

\* C4 amended: the dispatch is step-major: the steps are dispatched in their
\* order, each step to every target host, once per host and in the same host
\* order, before the next step is dispatched to any host.
C4_StepMajor ==
    /\ \A i, j \in 1..Len(dispatched) :
          i < j => /\ StepNo(dispatched[i][1]) <= StepNo(dispatched[j][1])
                   /\ dispatched[i] # dispatched[j]
    /\ \A j \in 1..Len(dispatched), n \in 1..Len(Steps) :
          n < StepNo(dispatched[j][1]) =>
              /\ Targets \subseteq Range(HostsOfStep(Steps[n]))
              /\ IsPrefix(HostsOfStep(dispatched[j][1]), HostsOfStep(Steps[n]))
    /\ pc = "Done" =>
          \A n \in 1..Len(Steps) : Targets \subseteq Range(HostsOfStep(Steps[n]))

\* a deploy went through all its steps for two hosts
C4_Witness ==
    /\ pc = "Done"
    /\ Cardinality(Targets) >= 2
    /\ Len(dispatched) = 2 * Len(Steps)

Terminal == {"Done", "Aborted", "Raised"}

\* C5 as stated: a fatal failure of a remote command ends the run in Aborted
\* with nothing executed after it, and a run without a fatal failure ends in
\* Done.
C5_AbortedOrDone ==
    /\ fatal # <<>> =>
          /\ pc = "Aborted"
          /\ fatal = <<issued[Len(issued)]>>
    /\ (pc \in Terminal /\ fatal = <<>>) => pc = "Done"

\* C6 as stated: a run in which the guard suppressed a step does not end in
\* an error, and no remote command is issued on a host a step was skipped on.
C6_SkipIsNoError ==
    skipped # <<>> =>
        /\ pc \notin {"Aborted", "Raised"}
        /\ \A i \in 1..Len(skipped), k \in 1..Len(issued) :
              issued[k].host # skipped[i][2]

\* C9: a failed existence check never ends the run; the clone is issued on a
\* host exactly when the existence check failed there; every other failed
\* command, the clone included, ends the run.
C9_OnlyExistenceCheckIsWarnOnly ==
    /\ \A i \in 1..Len(issued) :
          LET c == issued[i]
          IN  /\ c.cmd = "test -d" =>
                    /\ c \notin Range(fatal)
                    /\ c.failed <=> (/\ i < Len(issued)
                                     /\ issued[i + 1].cmd = "git clone"
                                     /\ issued[i + 1].host = c.host)
              /\ c.cmd = "git clone" =>
                    /\ i > 1
                    /\ issued[i - 1].cmd = "test -d"
                    /\ issued[i - 1].failed
                    /\ issued[i - 1].host = c.host
              /\ (c.failed /\ c.cmd # "test -d") =>
                    /\ pc = "Aborted"
                    /\ i = Len(issued)
                    /\ fatal = <<c>>
    /\ pc = "Aborted" => (fatal # <<>> /\ issued[Len(issued)].failed)

\* a deploy ran to its end although the existence check failed on one host;
\* that host was cloned to, the other one was not
C9_Witness ==
    /\ pc = "Done"
    /\ \E i, j \in 1..Len(issued) :
          /\ issued[i].cmd = "test -d" /\ issued[i].failed
          /\ issued[j].cmd = "test -d" /\ ~issued[j].failed
    /\ Cardinality({i \in 1..Len(issued) : issued[i].cmd = "git clone"}) = 1

\* the entries of the command log for command cmd
Issued(cmd) == {i \in 1..Len(issued) : issued[i].cmd = cmd}

====
